---- MODULE Spec2Model ----
(***************************************************************************)
(* cachecmd (cmd/cachecmd/main.go): run a command and cache its stdout,    *)
(* stderr and exit code in three sibling files of one cache directory;     *)
(* replay them while the stdout file is younger than the TTL.              *)
(*                                                                         *)
(* The model follows one cache key.  Every invocation of CacheCmd.Run is a *)
(* process that walks through fromCacheOrRun one system call at a time, so *)
(* that invocations sharing the cache directory interleave as operating    *)
(* system processes do.                                                    *)
(***************************************************************************)
EXTENDS Integers, Sequences, FiniteSets, TLC

\* ------------------------------------------------------------------ bounds

\* Invocations that may be in flight at once.
NProc == 2
\* Invocations started in one behaviour (background refreshes included).
MaxInv == 3
\* The wall clock runs over 0..MaxClock (seconds).
MaxClock == 2
\* TTLs and injected clocks offered to an invocation.
MaxTtl == 2
MaxNow == 2
\* Cache keys, command names and arguments are strings of up to MaxStr
\* characters; a command has up to MaxArgs arguments.
MaxStr == 2
MaxArgs == 2
\* A pipe holds up to PipeCap blocks; a command writes up to MaxWrites blocks.
PipeCap == 1
MaxWrites == 4

\* --------------------------------------------------------------- constants

\* time.Time.Second() is the second within the minute.
SecondsPerMinute == 60
\* The zero time.Time (currentTime of a CacheCmd built without a clock): it
\* lies on a minute boundary before every instant of the model.
ZeroTime == 0 - SecondsPerMinute
\* WaitStatus.ExitStatus() of a process that did not exit (killed by a signal).
SignaledExitStatus == 0 - 1

Procs == 1..NProc
Ttls == 0..MaxTtl
Nows == {ZeroTime} \cup (0..MaxNow)
\* Exit statuses a started command can end with: success, a one-digit code,
\* a code of several digits.
ExitCodes == {0, 3, 12}
\* option.cacheDir: "" cannot be created by os.MkdirAll.
CacheDirs == {"", "cache"}
Artifacts == {"STDOUT", "STDERR", "EXIT_CODE"}

NilErr == "nil"

\* ------------------------------------------------------------------- files

\* A file is its bytes and its modification time.  The code reads the
\* modification time of the stdout artifact alone (shouldUseCache), so the model
\* keeps it for that artifact and its temp file and leaves the others' at 0.
NoFile == [exists |-> FALSE, data |-> <<>>, mtime |-> 0]
File(d, t) == [exists |-> TRUE, data |-> d, mtime |-> t]

\* What execution number id of the command writes to its two streams.  The
\* command is one whose output differs from run to run (the tests use
\* `date +%N`), so the bytes name the execution that produced them.
CmdStdout(id) == <<"out", id>>
CmdStderr(id) == <<"err", id>>

\* ------------------------------------------------- exit code file encoding

Digit(d) == CASE d = 0 -> "0" [] d = 1 -> "1" [] d = 2 -> "2" [] d = 3 -> "3"
              [] d = 4 -> "4" [] d = 5 -> "5" [] d = 6 -> "6" [] d = 7 -> "7"
              [] d = 8 -> "8" [] d = 9 -> "9"

RECURSIVE FormatNat(_)
FormatNat(n) == IF n < 10 THEN <<Digit(n)>>
                ELSE FormatNat(n \div 10) \o <<Digit(n % 10)>>

\* fmt.Sprintf("%d", code)
FormatInt(n) == IF n < 0 THEN <<"-">> \o FormatNat(0 - n) ELSE FormatNat(n)

DigitValue(c) == CASE c = "0" -> 0 [] c = "1" -> 1 [] c = "2" -> 2 [] c = "3" -> 3
                   [] c = "4" -> 4 [] c = "5" -> 5 [] c = "6" -> 6 [] c = "7" -> 7
                   [] c = "8" -> 8 [] c = "9" -> 9 [] OTHER -> 0 - 1

RECURSIVE ParseNat(_, _)
ParseNat(s, acc) == IF s = <<>> THEN acc
                    ELSE ParseNat(Tail(s), acc * 10 + DigitValue(Head(s)))

AllDigits(s) == s # <<>> /\ \A i \in 1..Len(s) : DigitValue(s[i]) >= 0

\* strconv.Atoi with its error dropped: 0 for a string that is no number.
Atoi(s) ==
    IF AllDigits(s) THEN ParseNat(s, 0)
    ELSE IF s # <<>> /\ Head(s) = "-" /\ AllDigits(Tail(s)) THEN 0 - ParseNat(Tail(s), 0)
    ELSE IF s # <<>> /\ Head(s) = "+" /\ AllDigits(Tail(s)) THEN ParseNat(Tail(s), 0)
    ELSE 0

\* The buffer readExitCodeFromCache hands to Atoi: make([]byte, 1) filled by
\* one f.Read, so the first byte of the file, or a NUL byte at end of file.
FirstByte(data) == IF data = <<>> THEN <<"NUL">> ELSE <<Head(data)>>

\* ------------------------------------------------------------------- state

VARIABLES
    files,      \* the cache directory: artifact suffix -> file at base+suffix
    clock,      \* the wall clock (time.Now(), and the mtime the kernel stamps)
    procs,      \* the invocations in flight: process -> its CacheCmd and frame
    nInv,       \* invocations started so far; the next one is number nInv + 1
    pending,    \* background refreshes launched (exec.Cmd.Start) and not yet running
    naming,     \* a CacheCmd whose cache file name is computed (cacheFileName)
    draining    \* one run of runCmd seen pipe by pipe: the command and the copier

vars == <<files, clock, procs, nInv, pending, naming, draining>>

\* A process slot that runs no invocation.  The fields up to stderr are the
\* CacheCmd and the frame of fromCacheOrRun; the rest records, for the
\* properties, what the invocation did: how its command ended (cmd) and with
\* which wait status, the path fromCacheOrRun took, what the spec's freshness
\* test said of the record at lookup, whether it launched a refresh and
\* whether it is one.
Idle ==
    [pc |-> "idle", id |-> 0, ttl |-> 0, currentTime |-> ZeroTime, async |-> FALSE,
     tmpOut |-> NoFile, tmpErr |-> NoFile,
     cancelledOut |-> FALSE, cancelledErr |-> FALSE,
     exitcode |-> 0, err |-> NilErr,
     stdout |-> <<>>, stderr |-> <<>>,
     cmd |-> "none", status |-> 0, path |-> "none", lookup |-> "none",
     launched |-> FALSE, refresh |-> FALSE]

Active(p) == procs[p].pc \notin {"idle", "done"}

\* ------------------------------------------------------ the code's functions

\* time.Time.Second()
Second(t) == t % SecondsPerMinute

\* os.MkdirAll(c.opt.cacheDir, os.ModePerm): TRUE when it returns an error.
makeCacheDir(dir) == dir = ""

\* shouldUseCache with the TTL test left out: any record present is served.
shouldUseCacheAnyAge(f, currentTime, ttl, wall) == f.exists

\* CacheCmd.shouldUseCache, with wall the value time.Now() would return.
shouldUseCache(f, currentTime, ttl, wall) ==
    IF ~f.exists THEN FALSE
    ELSE LET now == IF Second(currentTime) = 0 THEN wall ELSE currentTime
         IN  (now - ttl) - f.mtime < 0

\* CacheCmd.readExitCodeFromCache
readExitCodeFromCache(f) ==
    IF ~f.exists THEN 0 ELSE Atoi(FirstByte(f.data))

\* f.WriteString at offset 0 of a file another process may have written since
\* this one truncated it.
WriteAt0(old, new) ==
    IF Len(old) <= Len(new) THEN new
    ELSE new \o SubSeq(old, Len(new) + 1, Len(old))

\* The error runCmd returns: nil, an *exec.ExitError carrying a wait status, or
\* any other error (cmd.Start failed).
RunNil == [kind |-> "nil", status |-> 0]
ExitError(st) == [kind |-> "ExitError", status |-> st]
StartError == [kind |-> "other", status |-> 0]

\* exitError: the pair (exit code, error).
exitError(e) ==
    CASE e.kind = "nil" -> [code |-> 0, err |-> NilErr]
      [] e.kind = "ExitError" -> [code |-> e.status, err |-> NilErr]
      [] OTHER -> [code |-> 1, err |-> "exec"]

\* CacheCmd.Run: what it makes of fromCacheOrRun's (code, err).
Run(code, err) == IF err # NilErr /\ code = 0 THEN 1 ELSE code

\* finally without the os.Remove(path) of its cancelled branch: the cache
\* file stays when the command could not be started.
finallyKeepsCache(target, tmp, cancelled) == IF cancelled THEN target ELSE tmp

\* The closure `finally` of prepareCacheFile: the file at the cache path after
\* it ran (the temp file is gone either way).
finally(target, tmp, cancelled) == IF cancelled THEN NoFile ELSE tmp

\* fromCacheOrRun returns (code, err) to Run, which returns to the caller.
Return(r, code, err) ==
    [r EXCEPT !.pc = "done", !.exitcode = Run(code, err), !.err = err,
              !.ttl = 0, !.currentTime = ZeroTime]

\* History value, not read by the program: the age test of shouldUseCache
\* taken with the caller's clock as given (the wall clock when the caller
\* supplied none), for the record named by its stdout artifact.
SuppliedNow(r) == IF r.currentTime = ZeroTime THEN clock ELSE r.currentTime
Lookup(r) ==
    IF ~files["STDOUT"].exists THEN "absent"
    ELSE IF SuppliedNow(r) - files["STDOUT"].mtime < r.ttl THEN "fresh"
    ELSE "expired"

\* -------------------------------------------------------------------- Init

\* No name is being computed, no run is being looked at pipe by pipe.
NoNaming ==
    [pc |-> "idle", cacheKey |-> <<>>, cmdName |-> <<>>, cmdArgs |-> <<>>,
     fileName |-> <<>>]
NoDraining ==
    [pc |-> "idle", script |-> <<>>, cmd |-> "none", stdoutPipe |-> 0,
     stderrPipe |-> 0, written |-> 0, copied |-> 0]

\* An empty cache directory and no invocation in flight.
InitCache ==
    /\ files = [a \in Artifacts |-> NoFile]
    /\ clock = 0
    /\ procs = [p \in Procs |-> Idle]
    /\ nInv = 0
    /\ pending = 0

Init ==
    /\ InitCache
    /\ naming = NoNaming
    /\ draining = NoDraining

\* ----------------------------------------------------------------- actions

\* Process slots are interchangeable: a new process takes the lowest free one.
FreeSlot(p) ==
    /\ procs[p].pc = "idle"
    /\ \A q \in Procs : q < p => procs[q].pc # "idle"

\* Refreshes that are launched or may yet be launched by an invocation in flight.
Reserved ==
    pending + Cardinality({q \in Procs : Active(q) /\ procs[q].async})

\* run / CacheCmd.Run up to makeCacheDir: a caller starts an invocation.
Start(p) ==
    /\ FreeSlot(p)
    /\ \E ttl \in Ttls, now \in Nows, async \in BOOLEAN, dir \in CacheDirs :
        /\ nInv + Reserved + (IF async THEN 2 ELSE 1) <= MaxInv
        /\ LET r == [Idle EXCEPT !.id = nInv + 1, !.ttl = ttl,
                                 !.currentTime = now, !.async = async]
           IN  procs' = [procs EXCEPT ![p] =
                   IF makeCacheDir(dir) THEN Return(r, 0, "mkdir")
                   ELSE [r EXCEPT !.pc = "shouldUseCache"]]
    /\ nInv' = nInv + 1
    /\ UNCHANGED <<files, clock, pending, naming, draining>>

\* The process updateCacheCmd launched begins to run: main() with
\* -ttl 0 -cache_dir <same> -key <same> <same command>, no -async, no clock.
StartRefresh(p) ==
    /\ FreeSlot(p)
    /\ pending > 0
    /\ procs' = [procs EXCEPT ![p] =
            [Idle EXCEPT !.id = nInv + 1, !.ttl = 0, !.refresh = TRUE,
                         !.pc = "shouldUseCache"]]
    /\ nInv' = nInv + 1
    /\ pending' = pending - 1
    /\ UNCHANGED <<files, clock, naming, draining>>

\* main.go:142
ShouldUseCache(p) ==
    LET r == procs[p] IN
    /\ r.pc = "shouldUseCache"
    /\ procs' = [procs EXCEPT ![p] =
            [r EXCEPT !.pc = IF shouldUseCache(files["STDOUT"], r.currentTime, r.ttl, clock)
                             THEN "fromCacheStdout" ELSE "prepareStdout",
                      !.path = IF shouldUseCache(files["STDOUT"], r.currentTime, r.ttl, clock)
                               THEN "hit" ELSE "miss",
                      !.lookup = Lookup(r),
                      !.ttl = 0, !.currentTime = ZeroTime]]
    /\ UNCHANGED <<files, clock, nInv, pending, naming, draining>>

\* fromCache on stdout as it would be if reading a record refreshed its
\* timestamp: the TTL would slide with every hit.
FromCacheStdoutTouches(p) ==
    LET r == procs[p] IN
    /\ r.pc = "fromCacheStdout"
    /\ procs' = [procs EXCEPT ![p] =
            IF files["STDOUT"].exists
            THEN [r EXCEPT !.pc = "fromCacheStderr", !.stdout = files["STDOUT"].data]
            ELSE Return(r, 0, "open")]
    /\ files' = [files EXCEPT !["STDOUT"] =
            IF @.exists THEN File(@.data, clock) ELSE @]
    /\ UNCHANGED <<clock, nInv, pending, naming, draining>>

\* main.go:143 fromCache(c.stdout, stdoutCache)
FromCacheStdout(p) ==
    LET r == procs[p] IN
    /\ r.pc = "fromCacheStdout"
    /\ procs' = [procs EXCEPT ![p] =
            IF files["STDOUT"].exists
            THEN [r EXCEPT !.pc = "fromCacheStderr", !.stdout = files["STDOUT"].data]
            ELSE Return(r, 0, "open")]
    /\ UNCHANGED <<files, clock, nInv, pending, naming, draining>>

\* main.go:146 fromCache(c.stderr, stderrCache)
FromCacheStderr(p) ==
    LET r == procs[p] IN
    /\ r.pc = "fromCacheStderr"
    /\ procs' = [procs EXCEPT ![p] =
            IF files["STDERR"].exists
            THEN [r EXCEPT !.pc = "readExitCode", !.stderr = files["STDERR"].data]
            ELSE Return(r, 0, "open")]
    /\ UNCHANGED <<files, clock, nInv, pending, naming, draining>>

\* main.go:149-154: read the exit code, then return it, in async mode after
\* updateCacheCmd().Start(), which launches the refresh or fails to.
ReadExitCode(p) ==
    LET r == procs[p]
        code == readExitCodeFromCache(files["EXIT_CODE"])
    IN
    /\ r.pc = "readExitCode"
    /\ \/ /\ ~r.async
          /\ procs' = [procs EXCEPT ![p] = Return(r, code, NilErr)]
          /\ UNCHANGED pending
       \/ /\ r.async
          /\ procs' = [procs EXCEPT ![p] =
                  Return([r EXCEPT !.launched = TRUE], code, NilErr)]
          /\ pending' = pending + 1
       \/ /\ r.async
          /\ procs' = [procs EXCEPT ![p] =
                  Return(r, code, "exec")]
          /\ UNCHANGED pending
    /\ UNCHANGED <<files, clock, nInv, naming, draining>>

\* main.go:157 prepareCacheFile(stdoutCache): ioutil.TempFile in the cache
\* directory succeeds or fails.
PrepareStdout(p) ==
    LET r == procs[p] IN
    /\ r.pc = "prepareStdout"
    /\ \E ok \in BOOLEAN :
        procs' = [procs EXCEPT ![p] =
            IF ok THEN [r EXCEPT !.pc = "prepareStderr", !.tmpOut = File(<<>>, clock)]
            ELSE Return(r, 0, "tempfile")]
    /\ UNCHANGED <<files, clock, nInv, pending, naming, draining>>

\* main.go:163 prepareCacheFile(stderrCache).  When it fails the function
\* returns (0, err) with finallyOut already deferred.
PrepareStderr(p) ==
    LET r == procs[p] IN
    /\ r.pc = "prepareStderr"
    /\ \E ok \in BOOLEAN :
        procs' = [procs EXCEPT ![p] =
            IF ok THEN [r EXCEPT !.pc = "runCmd", !.tmpErr = File(<<>>, 0)]
            ELSE [r EXCEPT !.pc = "finallyOut", !.exitcode = 0, !.err = "tempfile"]]
    /\ UNCHANGED <<files, clock, nInv, pending, naming, draining>>

\* main.go:170-176 with runCmd up to cmd.Start(): the command starts, or
\* cannot be started, and then exitError gives (1, err), both closures are
\* cancelled and the function returns.
CmdStart(p) ==
    LET r == procs[p]
        e == exitError(StartError)
    IN
    /\ r.pc = "runCmd"
    /\ \E started \in BOOLEAN :
        procs' = [procs EXCEPT ![p] =
            IF started THEN [r EXCEPT !.pc = "copyStdout", !.cmd = "running"]
            ELSE [r EXCEPT !.pc = "finallyErr", !.cmd = "startfail",
                           !.exitcode = e.code, !.err = e.err,
                           !.cancelledOut = e.err # NilErr,
                           !.cancelledErr = e.err # NilErr]]
    /\ UNCHANGED <<files, clock, nInv, pending, naming, draining>>

\* main.go:309 io.Copy(stdoutCache, io.TeeReader(stdout, c.stdout))
CopyStdout(p) ==
    LET r == procs[p] IN
    /\ r.pc = "copyStdout"
    /\ procs' = [procs EXCEPT ![p] =
            [r EXCEPT !.pc = "copyStderr",
                      !.stdout = CmdStdout(r.id),
                      !.tmpOut = File(CmdStdout(r.id), clock)]]
    /\ UNCHANGED <<files, clock, nInv, pending, naming, draining>>

\* main.go:312 io.Copy(stderrCache, io.TeeReader(stderr, c.stderr))
CopyStderr(p) ==
    LET r == procs[p] IN
    /\ r.pc = "copyStderr"
    /\ procs' = [procs EXCEPT ![p] =
            [r EXCEPT !.pc = "cmdWait",
                      !.stderr = CmdStderr(r.id),
                      !.tmpErr = File(CmdStderr(r.id), 0)]]
    /\ UNCHANGED <<files, clock, nInv, pending, naming, draining>>

\* main.go:316 cmd.Wait() and main.go:170-183: the command exits with a status
\* or is killed by a signal, sent by someone else or, once ctx is done, by
\* exec.CommandContext (main.go:294), which kills the process.
CmdWait(p) ==
    LET r == procs[p] IN
    /\ r.pc = "cmdWait"
    /\ \E st \in ExitCodes \cup {SignaledExitStatus}, ctxDone \in BOOLEAN :
        /\ ctxDone => st = SignaledExitStatus
        /\ LET runErr == IF st = 0 THEN RunNil ELSE ExitError(st)
               e == exitError(runErr)
               ended == IF ctxDone THEN "canceled"
                        ELSE IF st = SignaledExitStatus THEN "signal" ELSE "exit"
           IN  procs' = [procs EXCEPT ![p] =
                   IF runErr = RunNil
                   THEN [r EXCEPT !.pc = "finallyErr", !.cmd = ended, !.status = st,
                                  !.exitcode = 0, !.err = NilErr]
                   ELSE IF e.err # NilErr
                   THEN [r EXCEPT !.pc = "finallyErr", !.cmd = ended, !.status = st,
                                  !.exitcode = e.code, !.err = e.err,
                                  !.cancelledOut = TRUE, !.cancelledErr = TRUE]
                   ELSE [r EXCEPT !.pc = "cacheExitCode", !.cmd = ended, !.status = st,
                                  !.exitcode = e.code, !.err = NilErr]]
    /\ UNCHANGED <<files, clock, nInv, pending, naming, draining>>

\* main.go:217 os.Create(path): the exit code file is created or truncated in place.
CacheExitCodeCreate(p) ==
    LET r == procs[p] IN
    /\ r.pc = "cacheExitCode"
    /\ files' = [files EXCEPT !["EXIT_CODE"] = File(<<>>, 0)]
    /\ procs' = [procs EXCEPT ![p] = [r EXCEPT !.pc = "writeExitCode"]]
    /\ UNCHANGED <<clock, nInv, pending, naming, draining>>

\* main.go:222 f.WriteString(fmt.Sprintf("%d", code)), then return code, err.
CacheExitCodeWrite(p) ==
    LET r == procs[p] IN
    /\ r.pc = "writeExitCode"
    /\ files' = [files EXCEPT !["EXIT_CODE"] =
            File(WriteAt0(files["EXIT_CODE"].data, FormatInt(r.exitcode)), 0)]
    /\ procs' = [procs EXCEPT ![p] = [r EXCEPT !.pc = "finallyErr"]]
    /\ UNCHANGED <<clock, nInv, pending, naming, draining>>

\* The deferred finallyErr with its rename left out: the stderr temp file is
\* dropped and the stderr artifact is not put in place before the stdout one.
FinallyErrSkipsRename(p) ==
    LET r == procs[p] IN
    /\ r.pc = "finallyErr"
    /\ procs' = [procs EXCEPT ![p] =
            [r EXCEPT !.pc = "finallyOut", !.tmpErr = NoFile, !.err = NilErr]]
    /\ UNCHANGED <<files, clock, nInv, pending, naming, draining>>

\* main.go:167 the deferred err = finallyErr(): it runs first.
FinallyErr(p) ==
    LET r == procs[p] IN
    /\ r.pc = "finallyErr"
    /\ files' = [files EXCEPT !["STDERR"] = finally(files["STDERR"], r.tmpErr, r.cancelledErr)]
    /\ procs' = [procs EXCEPT ![p] =
            [r EXCEPT !.pc = "finallyOut", !.tmpErr = NoFile, !.err = NilErr]]
    /\ UNCHANGED <<clock, nInv, pending, naming, draining>>

\* main.go:161 the deferred err = finallyOut(): it runs last and its result
\* is the error fromCacheOrRun returns.
FinallyOut(p) ==
    LET r == procs[p] IN
    /\ r.pc = "finallyOut"
    /\ files' = [files EXCEPT !["STDOUT"] = finally(files["STDOUT"], r.tmpOut, r.cancelledOut)]
    /\ procs' = [procs EXCEPT ![p] =
            Return([r EXCEPT !.tmpOut = NoFile], r.exitcode, NilErr)]
    /\ UNCHANGED <<clock, nInv, pending, naming, draining>>

\* The process exits (os.Exit(code)) and its slot is free again.
Exit(p) ==
    /\ procs[p].pc = "done"
    /\ procs' = [procs EXCEPT ![p] = Idle]
    /\ UNCHANGED <<files, clock, nInv, pending, naming, draining>>

\* Time passes.
Tick ==
    /\ clock < MaxClock
    /\ clock' = clock + 1
    /\ UNCHANGED <<files, procs, nInv, pending, naming, draining>>

Step(p) ==
    \/ ShouldUseCache(p)
    \/ FromCacheStdout(p)
    \/ FromCacheStderr(p)
    \/ ReadExitCode(p)
    \/ PrepareStdout(p)
    \/ PrepareStderr(p)
    \/ CmdStart(p)
    \/ CopyStdout(p)
    \/ CopyStderr(p)
    \/ CmdWait(p)
    \/ CacheExitCodeCreate(p)
    \/ CacheExitCodeWrite(p)
    \/ FinallyErr(p)
    \/ FinallyOut(p)
    \/ Exit(p)

\* Invocations of one key sharing the cache directory, interleaved freely.
Next ==
    \/ \E p \in Procs : Start(p)
    \/ \E p \in Procs : StartRefresh(p)
    \/ \E p \in Procs : Step(p)
    \/ Tick

Spec == Init /\ [][Next]_vars

\* One invocation at a time: each runs to its end before the next begins.
Quiet == \A q \in Procs : ~Active(q)

NextSeq ==
    \/ \E p \in Procs : Quiet /\ Start(p)
    \/ \E p \in Procs : Quiet /\ StartRefresh(p)
    \/ \E p \in Procs : Step(p)
    \/ Tick

SpecSeq == Init /\ [][NextSeq]_vars

\* --------------------------------------------------------- cache file name

\* The characters strings are made of: a letter, and the two separators
\* cacheFileName puts between the parts of the digest input.
Chars == {"a", ":", " "}

RECURSIVE Strings(_)
Strings(n) ==
    IF n = 0 THEN {<<>>}
    ELSE LET S == Strings(n - 1)
         IN  S \cup {Append(s, c) : s \in {t \in S : Len(t) = n - 1}, c \in Chars}

RECURSIVE ArgLists(_)
ArgLists(n) ==
    IF n = 0 THEN {<<>>}
    ELSE LET L == ArgLists(n - 1)
         IN  L \cup {Append(l, a) : l \in {t \in L : Len(t) = n - 1},
                                    a \in Strings(MaxStr)}

\* What a caller can put in -key, command[0] and command[1:].
Options ==
    [cacheKey : Strings(MaxStr), cmdName : Strings(MaxStr) \ {<<>>},
     cmdArgs : ArgLists(MaxArgs)]

\* strings.Join(elems, sep)
RECURSIVE Join(_, _)
Join(elems, sep) ==
    IF elems = <<>> THEN <<>>
    ELSE IF Len(elems) = 1 THEN elems[1]
    ELSE elems[1] \o sep \o Join(Tail(elems), sep)

\* The bytes cacheFileName writes to the digest, in order.
DigestInput(cacheKey, cmdName, cmdArgs) ==
    cacheKey \o <<":">> \o (cmdName \o <<" ">> \o Join(cmdArgs, <<" ">>))

\* md5 over the bytes written, in hex.  The digest is taken to be free of
\* collisions: two sums are equal exactly when the bytes are.
md5Sum(bytes) == <<"md5", bytes>>

cacheStructureVersion == "1"

\* CacheCmd.cacheFileName
cacheFileName(cacheKey, cmdName, cmdArgs) ==
    <<"v", cacheStructureVersion, "-", md5Sum(DigestInput(cacheKey, cmdName, cmdArgs))>>

\* A CacheCmd is built from any key, command name and arguments.
InitName ==
    /\ InitCache
    /\ draining = NoDraining
    /\ naming \in {[NoNaming EXCEPT !.pc = "built", !.cacheKey = o.cacheKey,
                                    !.cmdName = o.cmdName, !.cmdArgs = o.cmdArgs] :
                   o \in Options}

\* main.go:136 c.cacheFilePath(), which calls c.cacheFileName()
CacheFileName ==
    /\ naming.pc = "built"
    /\ naming' = [naming EXCEPT !.pc = "named",
                     !.fileName = cacheFileName(naming.cacheKey, naming.cmdName,
                                                naming.cmdArgs)]
    /\ UNCHANGED <<files, clock, procs, nInv, pending, draining>>

NextName == CacheFileName

SpecName == InitName /\ [][NextName]_vars

\* ------------------------------------------------------ runCmd, pipe by pipe

\* The actions CopyStdout, CopyStderr and CmdWait above take a command whose
\* output fits the pipes.  Here one runCmd is followed block by block: the
\* command writes the blocks of its script in order, each to its stdout or its
\* stderr pipe, blocking while that pipe is full, and exits, closing both
\* pipes, when the script is done; runCmd reads as the code does.
RECURSIVE Scripts(_)
Scripts(n) ==
    IF n = 0 THEN {<<>>}
    ELSE LET S == Scripts(n - 1)
         IN  S \cup {Append(s, fd) : s \in {t \in S : Len(t) = n - 1},
                                     fd \in {"stdout", "stderr"}}

InitDrain ==
    /\ InitCache
    /\ naming = NoNaming
    /\ draining \in {[NoDraining EXCEPT !.pc = "start", !.script = sc] :
                     sc \in Scripts(MaxWrites)}

\* main.go:294-307 the pipes are made and cmd.Start() starts the command.
RunCmdStart ==
    /\ draining.pc = "start"
    /\ draining' = [draining EXCEPT !.pc = "copyStdout", !.cmd = "running"]
    /\ UNCHANGED <<files, clock, procs, nInv, pending, naming>>

\* The command writes its next block; write(2) returns once the pipe has room.
CommandWrite ==
    /\ draining.cmd = "running" /\ draining.script # <<>>
    /\ \/ /\ Head(draining.script) = "stdout"
          /\ draining.stdoutPipe < PipeCap
          /\ draining' = [draining EXCEPT !.script = Tail(@),
                             !.stdoutPipe = @ + 1, !.written = @ + 1]
       \/ /\ Head(draining.script) = "stderr"
          /\ draining.stderrPipe < PipeCap
          /\ draining' = [draining EXCEPT !.script = Tail(@),
                             !.stderrPipe = @ + 1, !.written = @ + 1]
    /\ UNCHANGED <<files, clock, procs, nInv, pending, naming>>

\* The command exits: the write ends of both pipes are closed.
CommandExit ==
    /\ draining.cmd = "running" /\ draining.script = <<>>
    /\ draining' = [draining EXCEPT !.cmd = "exited"]
    /\ UNCHANGED <<files, clock, procs, nInv, pending, naming>>

\* main.go:309 io.Copy(stdoutCache, io.TeeReader(stdout, c.stdout)): a read
\* returns a block, or end of file once the pipe is empty and closed; an
\* empty open pipe blocks the read.
StdoutRead ==
    /\ draining.pc = "copyStdout" /\ draining.stdoutPipe > 0
    /\ draining' = [draining EXCEPT !.stdoutPipe = @ - 1, !.copied = @ + 1]
    /\ UNCHANGED <<files, clock, procs, nInv, pending, naming>>

StdoutEof ==
    /\ draining.pc = "copyStdout" /\ draining.stdoutPipe = 0
    /\ draining.cmd = "exited"
    /\ draining' = [draining EXCEPT !.pc = "copyStderr"]
    /\ UNCHANGED <<files, clock, procs, nInv, pending, naming>>

\* main.go:312 io.Copy(stderrCache, io.TeeReader(stderr, c.stderr)), entered
\* when the copy of stdout has returned.
StderrRead ==
    /\ draining.pc = "copyStderr" /\ draining.stderrPipe > 0
    /\ draining' = [draining EXCEPT !.stderrPipe = @ - 1, !.copied = @ + 1]
    /\ UNCHANGED <<files, clock, procs, nInv, pending, naming>>

StderrEof ==
    /\ draining.pc = "copyStderr" /\ draining.stderrPipe = 0
    /\ draining.cmd = "exited"
    /\ draining' = [draining EXCEPT !.pc = "wait"]
    /\ UNCHANGED <<files, clock, procs, nInv, pending, naming>>

\* main.go:316 return cmd.Wait()
RunCmdWait ==
    /\ draining.pc = "wait" /\ draining.cmd = "exited"
    /\ draining' = [draining EXCEPT !.pc = "returned"]
    /\ UNCHANGED <<files, clock, procs, nInv, pending, naming>>

Command == CommandWrite \/ CommandExit
RunCmd == RunCmdStart \/ StdoutRead \/ StdoutEof \/ StderrRead \/ StderrEof \/ RunCmdWait

NextDrain ==
    \/ RunCmdStart
    \/ CommandWrite
    \/ CommandExit
    \/ StdoutRead
    \/ StdoutEof
    \/ StderrRead
    \/ StderrEof
    \/ RunCmdWait

\* The command and cachecmd are two processes the operating system keeps
\* running: each takes a step it can take.
SpecDrain ==
    InitDrain /\ [][NextDrain]_vars /\ WF_vars(Command) /\ WF_vars(RunCmd)

\* ============================================================== properties

Done(p) == procs[p].pc = "done"

\* q is the invocation that came right after p.
Follows(q, p) == procs[q].id = procs[p].id + 1

\* p ran its command to an exit status and went on to commit.
Executed(p) == procs[p].path = "miss" /\ procs[p].cmd = "exit"

\* The record q looks up is the one p committed: p ran the command and
\* returned, and q is the next invocation.
RecordFrom(p, q) == Done(p) /\ Executed(p) /\ Follows(q, p)

\* C1: exit-code transparency on replay.  When an invocation ran the command
\* and the command exited with n in 1..255, that invocation returns n, and the
\* next invocation, served from the cache, returns n as well.
C1_ExitCodeReplay ==
    \A p, q \in Procs :
        (Done(p) /\ Executed(p) /\ procs[p].status \in 1..255)
        => /\ procs[p].exitcode = procs[p].status
           /\ (Done(q) /\ Follows(q, p) /\ procs[q].path = "hit")
              => procs[q].exitcode = procs[p].status

\* C2: cache hit within TTL.  When an invocation ran the command and committed
\* its record, and the next invocation's clock is less than ttl after the
\* record's timestamp, the next invocation does not run the command and
\* emits on stdout and stderr the bytes the first one emitted.
C2_HitWithinTtl ==
    \A p, q \in Procs :
        (RecordFrom(p, q) /\ procs[q].lookup = "fresh")
        => /\ procs[q].path = "hit" /\ procs[q].cmd = "none"
           /\ (Done(q) /\ procs[q].err = NilErr)
              => /\ procs[q].stdout = procs[p].stdout
                 /\ procs[q].stderr = procs[p].stderr

\* C3: full-record commit.  Once a miss-path execution has run to completion
\* and returned, the record under the key is the stdout, the stderr and the
\* exit code of that execution: in particular, after one that exited 0 the
\* exit code a cache hit returns is 0.
C3_FullRecordCommit ==
    \A p \in Procs :
        (Done(p) /\ Executed(p) /\ procs[p].id = nInv)
        => /\ files["STDOUT"].exists /\ files["STDOUT"].data = procs[p].stdout
           /\ files["STDERR"].exists /\ files["STDERR"].data = procs[p].stderr
           /\ procs[p].status = 0 => readExitCodeFromCache(files["EXIT_CODE"]) = 0

\* C4: freshness decision.  An invocation is served from the cache exactly
\* when a record exists and now - record.timestamp < ttl, for the now the
\* caller supplied.
C4_FreshnessDecision ==
    \A p, q \in Procs :
        /\ procs[q].lookup = "absent" => procs[q].path = "miss"
        /\ (RecordFrom(p, q) /\ procs[q].path # "none")
           => (procs[q].path = "hit" <=> procs[q].lookup = "fresh")

\* The step in which p decides between cache and command.
Decides(p) == procs[p].pc = "shouldUseCache" /\ procs'[p].pc # "shouldUseCache"

\* C5: ttl = 0 forces re-execution: whatever the record's timestamp, an
\* invocation with ttl = 0 takes the miss path.
C5_TtlZeroMisses ==
    [][\A p, q \in Procs :
          (RecordFrom(p, q) /\ Decides(q) /\ procs[q].ttl = 0)
          => procs'[q].path = "miss"]_vars

\* C6: record-level atomic visibility.  What a reader served from the cache
\* emits on stdout and on stderr never comes from two different executions.
C6_NoMixedRecord ==
    \A q \in Procs : \A i, j \in 1..MaxInv :
        (Done(q) /\ procs[q].path = "hit"
         /\ procs[q].stdout = CmdStdout(i) /\ procs[q].stderr = CmdStderr(j))
        => i = j

\* C7: startup failure is a hard error.  When the command cannot be started
\* (the cache directory being usable), Run returns a non-nil error and a
\* non-zero exit code.
C7_StartFailureIsError ==
    \A p \in Procs :
        (Done(p) /\ procs[p].cmd = "startfail")
        => procs[p].err # NilErr /\ procs[p].exitcode # 0

\* C8: startup failure invalidates the cache.  After an invocation whose
\* command could not be started, the exit code is non-zero, its temp files are
\* gone, the stdout and stderr artifacts are gone, and no ttl and no clock
\* make the next invocation take the hit path.
C8_StartFailureInvalidates ==
    \A p \in Procs :
        (Done(p) /\ procs[p].cmd = "startfail" /\ procs[p].id = nInv)
        => /\ procs[p].exitcode # 0
           /\ procs[p].tmpOut = NoFile /\ procs[p].tmpErr = NoFile
           /\ ~files["STDOUT"].exists /\ ~files["STDERR"].exists
           /\ \A ttl \in Ttls, now \in Nows, wall \in 0..MaxClock :
                ~shouldUseCache(files["STDOUT"], now, ttl, wall)

\* C8 witness: a command that could not be started, in an invocation that
\* had found a stale record under the key.
C8_Witness ==
    \E p \in Procs :
        /\ Done(p) /\ procs[p].cmd = "startfail" /\ procs[p].id = nInv
        /\ procs[p].lookup = "expired"

\* C9 as stated: in async mode an invocation that finds a record present but
\* expired (under a ttl above 0) is served that record.
C9_AsyncServesStale ==
    [][\A p, q \in Procs :
          (RecordFrom(p, q) /\ Decides(q) /\ procs[q].async
           /\ procs[q].ttl > 0 /\ Lookup(procs[q]) = "expired")
          => procs'[q].path = "hit"]_vars

\* The clock shouldUseCache compares with: the supplied one, the wall clock
\* when its seconds field is 0.
EffectiveNow(r) == IF Second(r.currentTime) = 0 THEN clock ELSE r.currentTime

\* C9 amended: in async mode a record that has expired by the clock the
\* invocation uses is not served.  The invocation takes the miss path, as it
\* would without async: it launches no refresh and what it emits is the
\* output of its own run of the command, never the stale record.  A refresh
\* is launched only by an invocation that took the hit path.
C9_AsyncExpiredRuns ==
    /\ [][\A q \in Procs :
            (Decides(q) /\ procs[q].async /\ files["STDOUT"].exists
             /\ EffectiveNow(procs[q]) - files["STDOUT"].mtime >= procs[q].ttl)
            => procs'[q].path = "miss"]_vars
    /\ [](\A q \in Procs :
            /\ procs[q].launched => (procs[q].path = "hit" /\ procs[q].cmd = "none")
            /\ (procs[q].async /\ procs[q].path = "miss")
               => /\ ~procs[q].launched
                  /\ procs[q].stdout \in {<<>>, CmdStdout(procs[q].id)}
                  /\ procs[q].stderr \in {<<>>, CmdStderr(procs[q].id)})

\* C9 witness: an async invocation found the record of the invocation before
\* it expired, ran the command itself and launched nothing.
C9_Witness ==
    \E p, q \in Procs :
        /\ RecordFrom(p, q) /\ Done(q) /\ procs[q].async
        /\ procs[q].lookup = "expired" /\ procs[q].path = "miss"
        /\ procs[q].cmd = "exit" /\ ~procs[q].launched
        /\ procs[q].stdout = CmdStdout(procs[q].id)

\* C10: async refresh takes effect.  Once the refresh an async hit launched
\* has run the command and returned, the record a following invocation is
\* served is the refreshed result: the refresh's stdout, stderr and exit code.
C10_RefreshTakesEffect ==
    \A c \in Procs :
        (Done(c) /\ procs[c].refresh /\ Executed(c) /\ procs[c].id = nInv)
        => /\ files["STDOUT"].exists /\ files["STDOUT"].data = procs[c].stdout
           /\ files["STDERR"].exists /\ files["STDERR"].data = procs[c].stderr
           /\ readExitCodeFromCache(files["EXIT_CODE"]) = procs[c].exitcode

\* C11: refresh launch failure is non-fatal.  When an async invocation was
\* served from the cache and updateCacheCmd().Start() failed, its exit code is
\* the cached exit code (0 stays 0), as if the launch had succeeded.
C11_LaunchFailureNonFatal ==
    \A q \in Procs :
        (Done(q) /\ procs[q].path = "hit" /\ procs[q].async
         /\ procs[q].err = "exec" /\ procs[q].id = nInv)
        => procs[q].exitcode = readExitCodeFromCache(files["EXIT_CODE"])

\* C13: cache-read errors are misses.  An invocation that found the stdout
\* artifact of an execution present and fresh never returns an error that
\* comes from opening or reading another artifact of the record.
C13_ReadErrorsAreMisses ==
    \A q \in Procs :
        (Done(q) /\ procs[q].path = "hit" /\ procs[q].stdout # <<>>)
        => procs[q].err # "open"

\* p returned before its command was ever started, on the miss path: creating
\* one of the two temp files failed.
StagingFailed(p) == Done(p) /\ procs[p].path = "miss" /\ procs[p].cmd = "none"

\* C14: cache-write errors are hard failures.  When staging an artifact fails
\* on the miss path, Run returns a non-nil error and a non-zero exit code.
C14_WriteErrorsAreFailures ==
    \A p \in Procs :
        StagingFailed(p) => (procs[p].err # NilErr /\ procs[p].exitcode # 0)

\* C15: no overwrite on partial failure.  When staging fails before any
\* rename, the temp files are gone and the record committed by the invocation
\* before is intact: its stdout and stderr artifacts still hold what that
\* invocation wrote.
C15_NoPartialOverwrite ==
    \A p, q \in Procs :
        (RecordFrom(p, q) /\ StagingFailed(q) /\ procs[q].id = nInv)
        => /\ procs[q].tmpOut = NoFile /\ procs[q].tmpErr = NoFile
           /\ files["STDOUT"].exists /\ files["STDOUT"].data = procs[p].stdout
           /\ files["STDERR"].exists /\ files["STDERR"].data = procs[p].stderr

\* C19: signal termination maps to exit code 1.  When the started command was
\* killed by a signal the invocation returns exit code 1.
C19_SignalIsExitOne ==
    \A p \in Procs :
        (Done(p) /\ procs[p].cmd = "signal") => procs[p].exitcode = 1

\* C16: cancellation discards staged output.  When ctx was done while the
\* command was running, the command is killed, the temp files are removed
\* and nothing the canceled execution wrote is visible under the key.
C16_CancelDiscards ==
    \A p \in Procs :
        (Done(p) /\ procs[p].cmd = "canceled" /\ procs[p].id = nInv)
        => /\ procs[p].tmpOut = NoFile /\ procs[p].tmpErr = NoFile
           /\ files["STDOUT"].data # CmdStdout(procs[p].id)
           /\ files["STDERR"].data # CmdStderr(procs[p].id)

\* What an execution writes as the complete content of the exit code artifact.
CompleteExitCodes ==
    {FormatInt(c) : c \in (ExitCodes \ {0}) \cup {SignaledExitStatus}}

\* C17: per-artifact atomicity, for the exit code artifact.  Whenever a reader
\* served from the cache comes to read the exit code artifact, the content at
\* its final path is the complete content one execution wrote, never an empty
\* or truncated intermediate.
C17_ArtifactAtomic ==
    \A q \in Procs :
        (procs[q].pc = "readExitCode" /\ files["EXIT_CODE"].exists)
        => files["EXIT_CODE"].data \in CompleteExitCodes

\* w is the one writer under the key and there was no record before it: every
\* invocation so far is still at hand, w took the miss path and got as far as
\* running its command, and no other invocation took the miss path.
SoleWriter(w) ==
    /\ Cardinality({p \in Procs : procs[p].pc # "idle"}) = nInv
    /\ procs[w].path = "miss" /\ procs[w].cmd # "none"
    /\ \A p \in Procs \ {w} : procs[p].path # "miss"

\* C20: commit order.  A miss-path execution writes the exit code artifact
\* (when it writes one) first, renames the stderr artifact second and the
\* stdout artifact last.  So with one writer and no record before it: once
\* the stderr artifact is there the exit code artifact is complete, once the
\* stdout artifact is there the stderr artifact is there too, and every other
\* invocation that decided "hit" finds the stderr artifact present.
C20_CommitOrder ==
    \A w \in Procs :
        SoleWriter(w)
        => /\ files["STDERR"].exists
              => /\ files["STDERR"].data = CmdStderr(procs[w].id)
                 /\ procs[w].status # 0
                    => files["EXIT_CODE"].data = FormatInt(procs[w].status)
           /\ files["STDOUT"].exists
              => /\ files["STDOUT"].data = CmdStdout(procs[w].id)
                 /\ files["STDERR"].exists
           /\ \A q \in Procs \ {w} :
                procs[q].path = "hit" => files["STDERR"].exists

\* C20 witness: a reader that was started before the writer decided "hit"
\* after the writer, whose command exited non-zero, had committed.
C20_Witness ==
    \E w, q \in Procs :
        /\ SoleWriter(w) /\ procs[w].cmd = "exit" /\ procs[w].status # 0
        /\ procs[q].id < procs[w].id
        /\ procs[q].pc = "fromCacheStderr" /\ procs[q].path = "hit"

\* C12: key injectivity.  The name computed for a (key, command name,
\* arguments) triple is the name of another triple exactly when the two
\* triples are the same: equal triples give equal names, and triples that
\* differ in key, in argument order or count, or in where the key ends and
\* the command begins give different digest inputs and so different names.
C12_KeyInjective ==
    \A o \in Options :
        naming.pc = "named"
        => (cacheFileName(o.cacheKey, o.cmdName, o.cmdArgs) = naming.fileName
            <=> /\ o.cacheKey = naming.cacheKey
                /\ o.cmdName = naming.cmdName
                /\ o.cmdArgs = naming.cmdArgs)

\* C18: stream draining terminates.  Whatever the order and the volume in
\* which the command writes to its two streams, runCmd returns, and when it
\* has returned every block the command wrote has been copied and both pipes
\* are at end of file.
C18_DrainTerminates ==
    /\ [](draining.pc = "returned"
          => /\ draining.cmd = "exited"
             /\ draining.stdoutPipe = 0 /\ draining.stderrPipe = 0
             /\ draining.copied = draining.written)
    /\ <>(draining.pc = "returned")

\* The step is one of invocation q, not in async mode, on the hit path: the
\* lookup that decides "hit", or a later step of an invocation that did.
HitStep(q) ==
    /\ procs'[q] # procs[q] /\ ~procs[q].async
    /\ \/ Decides(q) /\ procs'[q].path = "hit"
       \/ procs[q].path = "hit" /\ Active(q)

\* C21: hits do not touch the record.  No step of an invocation served from
\* the cache in non-async mode changes any of the three artifacts or the
\* record's timestamp, and none creates a temp file; so the record expires
\* for the same ttl and clock after the hit as before it.
C21_HitsLeaveRecord ==
    [][\A q \in Procs :
          HitStep(q)
          => /\ files' = files
             /\ files'["STDOUT"].mtime = files["STDOUT"].mtime
             /\ procs'[q].tmpOut = NoFile /\ procs'[q].tmpErr = NoFile
             /\ \A ttl \in Ttls, now \in Nows :
                  shouldUseCache(files'["STDOUT"], now, ttl, clock')
                  = shouldUseCache(files["STDOUT"], now, ttl, clock)]_vars

\* C21 witness: two invocations in a row were served, later than its write,
\* the record an execution committed.
C21_Witness ==
    \E p, q \in Procs :
        /\ Done(p) /\ Done(q) /\ Follows(q, p) /\ procs[q].id = nInv
        /\ procs[p].path = "hit" /\ procs[q].path = "hit"
        /\ ~procs[p].async /\ ~procs[q].async
        /\ procs[p].err = NilErr /\ procs[q].err = NilErr
        /\ procs[q].stdout = procs[p].stdout /\ procs[q].stdout # <<>>
        /\ clock > files["STDOUT"].mtime

====
